---------------------------- MODULE Spec2Model ----------------------------
(* A model of google_docs_tool.py: six actions whose execute() performs   *)
(* one or two sequential HTTP calls against a document service and maps   *)
(* the outcome to a result envelope.  Every invocation of execute is a    *)
(* slot of the model; the HTTP calls are its atomic steps, so invocations *)
(* of a host that runs them in parallel interleave at the calls.          *)
EXTENDS Integers, Sequences, FiniteSets, TLC

VARIABLES
    pc,          \* slot -> position of the invocation of execute
    invocation,  \* slot -> [action, req, auth, extra]: the arguments of execute
    local,       \* slot -> the local variable that lives across two HTTP calls
    calls,       \* slot -> the HTTP calls issued so far, each with its outcome
    raised,      \* slot -> the exception raised inside the try block (or NoExc)
    result,      \* slot -> the value execute returned (or NotReturned)
    self_state,  \* attributes set on the action instances or on the module
    interleaved, \* slot -> one of its calls fell between the two calls of another
    service,     \* the outcomes the document service may give, per endpoint
    host,        \* the invocations the host runtime may submit
    style_in,    \* arguments of a direct call of create_style_requests
    style_out    \* its return value

vars == <<pc, invocation, local, calls, raised, result, self_state, interleaved,
          service, host, style_in, style_out>>

-----------------------------------------------------------------------------
(* Bounds of the model.                                                   *)

NumInv == 2       \* invocations the host runs in parallel
MaxFileLen == 2   \* bytes of an uploaded file
MaxRepl == 2      \* entries of a replacements mapping
MaxTextLen == 5   \* the text_length argument

-----------------------------------------------------------------------------
(* Python values, tagged with their type.                                 *)

None == [t |-> "None", v |-> "None"]
PyBool(b) == [t |-> "bool", v |-> b]
PyStr(s) == [t |-> "str", v |-> s]
PyInt(n) == [t |-> "int", v |-> n]
PyDict(d) == [t |-> "dict", v |-> d]
PyList(l) == [t |-> "list", v |-> l]

EmptyDict == << >>

\* bool(x), as `if x:` evaluates it
Truthy(x) ==
    CASE x.t = "None" -> FALSE
      [] x.t = "bool" -> x.v
      [] x.t = "str" -> x.v # ""
      [] x.t = "int" -> x.v # 0
      [] x.t = "dict" -> DOMAIN x.v # {}
      [] x.t = "list" -> Len(x.v) # 0
      [] OTHER -> TRUE

\* f"{x}" inside a URL
Str(x) ==
    CASE x.t = "None" -> "None"
      [] x.t = "str" -> x.v
      [] x.t = "bool" -> IF x.v THEN "True" ELSE "False"
      [] OTHER -> "<object>"

\* d.get(k) and d.get(k, default) of a dict d
GetDefault(d, k, default) == IF k \in DOMAIN d.v THEN d.v[k] ELSE default
Get(d, k) == GetDefault(d, k, None)

\* pydantic BaseModel construction: declared fields only, defaults for the
\* fields not given, keyword arguments that are no field are ignored
BaseModel(cls, defaults, kwargs) ==
    [t |-> "model", cls |-> cls,
     v |-> [f \in DOMAIN defaults |->
               IF f \in DOMAIN kwargs THEN kwargs[f] ELSE defaults[f]]]

HasAttr(obj, name) == name \in DOMAIN obj.v

\* a required field: it has no default and construction needs it
Required == [t |-> "required", v |-> "required"]

RequiredGiven(defaults, kwargs) ==
    \A f \in DOMAIN defaults : defaults[f] = Required => f \in DOMAIN kwargs

-----------------------------------------------------------------------------
(* The schemas.                                                            *)

CreateDocumentRequest == [title |-> None, text |-> None]
CreateDocumentResponse == [document_details |-> None]
AppendTextToDocumentRequest == [document_id |-> Required, text_to_append |-> Required]
CreateDocumentFromTemplateRequest ==
    [template_document_id |-> Required, replacements |-> Required,
     new_document_title |-> PyStr("New Document")]
UploadDocumentRequest == [file_name |-> None]
CreateDocumentFromTextRequest == [document_content |-> Required, title |-> Required]
FindOrCreateDocumentRequest == [document_title |-> Required]

\* GoogleDocs3.actions()
Actions == {"AppendTextToDocument", "CreateDocumentFromTemplate", "UploadDocument",
            "CreateDocumentFromText", "FindOrCreateDocument", "CreateDocument"}

RequestClass(a) ==
    CASE a = "CreateDocument" -> "CreateDocumentRequest"
      [] a = "AppendTextToDocument" -> "AppendTextToDocumentRequest"
      [] a = "CreateDocumentFromTemplate" -> "CreateDocumentFromTemplateRequest"
      [] a = "UploadDocument" -> "UploadDocumentRequest"
      [] a = "CreateDocumentFromText" -> "CreateDocumentFromTextRequest"
      [] a = "FindOrCreateDocument" -> "FindOrCreateDocumentRequest"

request_schema(a) ==
    CASE a = "CreateDocument" -> CreateDocumentRequest
      [] a = "AppendTextToDocument" -> AppendTextToDocumentRequest
      [] a = "CreateDocumentFromTemplate" -> CreateDocumentFromTemplateRequest
      [] a = "UploadDocument" -> UploadDocumentRequest
      [] a = "CreateDocumentFromText" -> CreateDocumentFromTextRequest
      [] a = "FindOrCreateDocument" -> FindOrCreateDocumentRequest

-----------------------------------------------------------------------------
(* Exceptions.                                                             *)

NoExc == [type |-> "", msg |-> ""]
ConnectionError == [type |-> "ConnectionError", msg |-> "connection failed"]
JSONDecodeError == [type |-> "JSONDecodeError", msg |-> "Expecting value"]
AttributeErrorGet == [type |-> "AttributeError", msg |-> "object has no attribute 'get'"]
AttributeErrorTextStyle ==
    [type |-> "AttributeError", msg |-> "object has no attribute 'text_style'"]
UnboundLocalError ==
    [type |-> "UnboundLocalError", msg |-> "new_document referenced before assignment"]
UnicodeDecodeError ==
    [type |-> "UnicodeDecodeError", msg |-> "'utf-8' codec can't decode byte"]

\* the subclasses of Exception among them (all of them are)
ExceptionSubclasses ==
    {"ConnectionError", "JSONDecodeError", "AttributeError", "UnboundLocalError",
     "UnicodeDecodeError"}

\* requests.RequestException and its subclasses
RequestExceptions == {"ConnectionError", "JSONDecodeError"}

-----------------------------------------------------------------------------
(* HTTP: what requests.post / requests.get are given and what they give.   *)

DefaultBaseUrl == "https://docs.googleapis.com"

\* authorisation_data.get("headers", {}) and authorisation_data.get("base_url", ...)
HeadersOf(auth) == GetDefault(auth, "headers", PyDict(EmptyDict))
BaseUrlOf(auth) == Str(GetDefault(auth, "base_url", PyStr(DefaultBaseUrl)))

\* f"{base_url}/v1/documents/{id}:verb"
Url(base, path, id, verb) == [base |-> base, path |-> path, id |-> id, verb |-> verb]

HttpCall(method, url, headers, json, params) ==
    [method |-> method, url |-> url, headers |-> headers, json |-> json,
     params |-> params]

NoCall == HttpCall("", Url("", "", "", ""), None, None, None)

\* an outcome of a call: the call raised (no response), or a response with a
\* status code and a body that is JSON or is not
NetworkError == [kind |-> "neterr", status_code |-> 0, body |-> None]
Response(status, body) == [kind |-> "json", status_code |-> status, body |-> body]
TextResponse(status) == [kind |-> "text", status_code |-> status, body |-> None]

\* a document object of the service; the actions read "id" or "documentId"
Doc(id) == PyDict([id |-> PyStr(id), documentId |-> PyStr(id)])
DocList(docs) == PyDict([documents |-> PyList(docs)])

StatusCodes == {200, 500}

DocBodies ==
    {PyDict(EmptyDict), Doc("d1"), Doc("d2"), Doc(""), PyList(<<PyStr("x")>>)}
ListBodies ==
    {PyDict(EmptyDict), DocList(<< >>), DocList(<<Doc("d1")>>), DocList(<<Doc("")>>),
     DocList(<<Doc("d2"), Doc("d1")>>), DocList(<<PyDict(EmptyDict)>>)}

OutcomesOver(bodies) ==
    {NetworkError} \cup {TextResponse(s) : s \in StatusCodes}
        \cup {Response(s, b) : s \in StatusCodes, b \in bodies}

\* any behaviour of the service
AnyService == [doc |-> OutcomesOver(DocBodies), list |-> OutcomesOver(ListBodies)]

\* a service that answers every call, with a well-formed body
PlainService ==
    [doc |-> {Response(500, PyDict(EmptyDict)), Response(200, Doc("d1")),
              Response(200, Doc("d2"))},
     list |-> {Response(500, PyDict(EmptyDict)), Response(200, DocList(<< >>)),
               Response(200, DocList(<<Doc("d1")>>))}]

-----------------------------------------------------------------------------
(* How a step of execute ends: it returns a value, raises, or goes on to   *)
(* the next HTTP call with a local variable.  `call` is the HTTP call the  *)
(* step issued (NoCall when it ended before issuing one).                  *)

Return(call, value) ==
    [kind |-> "return", call |-> call, value |-> value, exc |-> NoExc,
     next |-> "done", local |-> None]
Raise(call, exc) ==
    [kind |-> "raise", call |-> call, value |-> None, exc |-> exc,
     next |-> "done", local |-> None]
Continue(call, next, loc) ==
    [kind |-> "continue", call |-> call, value |-> None, exc |-> NoExc,
     next |-> next, local |-> loc]

Envelope(executed, response_data) ==
    PyDict([execution_details |-> PyDict([executed |-> PyBool(executed)]),
            response_data |-> PyDict(response_data)])

NotReturned == [t |-> "pending", v |-> "pending"]
Propagated(exc) == [t |-> "raised", v |-> exc]

\* try: ... except Exception as e: return <envelope>
TryExceptRequestsOnly(c, envelope) ==
    IF c.kind # "raise" THEN c.value
    ELSE IF c.exc.type \in RequestExceptions THEN envelope
    ELSE Propagated(c.exc)

TryExcept(c, envelope) ==
    IF c.kind # "raise" THEN c.value
    ELSE IF c.exc.type \in ExceptionSubclasses THEN envelope
    ELSE Propagated(c.exc)

\* the except branch of each execute
ExceptEnvelope(a, e) ==
    CASE a = "CreateDocument" ->
            Envelope(FALSE, [success |-> PyBool(FALSE), error |-> PyStr(e.msg)])
      [] a = "AppendTextToDocument" ->
            Envelope(FALSE, [success |-> PyBool(FALSE), error |-> PyStr(e.msg)])
      [] a = "CreateDocumentFromTemplate" ->
            Envelope(FALSE, [success |-> PyBool(FALSE), document_id |-> PyStr(""),
                             error |-> PyStr(e.msg)])
      [] OTHER ->
            Envelope(FALSE, [success |-> PyBool(FALSE), document_id |-> None,
                             error |-> PyStr(e.msg)])

\* response.json()
JsonOk(o) == o.kind = "json"

-----------------------------------------------------------------------------
(* bytes.decode("utf-8"): the code points of a byte string, or a failure.  *)

ByteAlphabet == {65, 169, 195, 255}

Continuation(b) == b \in 128..191

Utf8Need(b0) ==
    CASE b0 < 128 -> 0
      [] b0 \in 194..223 -> 1
      [] b0 \in 224..239 -> 2
      [] b0 \in 240..244 -> 3
      [] OTHER -> -1

Utf8SecondOk(b0, b1) ==
    CASE b0 = 224 -> b1 >= 160
      [] b0 = 237 -> b1 <= 159
      [] b0 = 240 -> b1 >= 144
      [] b0 = 244 -> b1 <= 143
      [] OTHER -> TRUE

Utf8CodePoint(b, k, n) ==
    CASE n = 0 -> b[k]
      [] n = 1 -> (b[k] - 192) * 64 + (b[k + 1] - 128)
      [] n = 2 -> (b[k] - 224) * 4096 + (b[k + 1] - 128) * 64 + (b[k + 2] - 128)
      [] n = 3 -> (b[k] - 240) * 262144 + (b[k + 1] - 128) * 4096
                    + (b[k + 2] - 128) * 64 + (b[k + 3] - 128)

RECURSIVE Utf8From(_, _)
Utf8From(b, k) ==
    IF k > Len(b) THEN [ok |-> TRUE, text |-> << >>]
    ELSE LET n == Utf8Need(b[k]) IN
         IF \/ n = -1
            \/ k + n > Len(b)
            \/ \E j \in 1..n : ~Continuation(b[k + j])
            \/ (n >= 1 /\ ~Utf8SecondOk(b[k], b[k + 1]))
         THEN [ok |-> FALSE, text |-> << >>]
         ELSE LET rest == Utf8From(b, k + n + 1) IN
              IF rest.ok
              THEN [ok |-> TRUE, text |-> <<Utf8CodePoint(b, k, n)>> \o rest.text]
              ELSE rest

Utf8Decode(b) == Utf8From(b, 1)

-----------------------------------------------------------------------------
(* AppendTextToDocument.create_style_requests                              *)

TextRange(text_length) == [startIndex |-> 1, endIndex |-> text_length + 1]

UpdateTextStyle(text_length, textStyle, fields) ==
    PyDict([updateTextStyle |->
               PyDict([range |-> TextRange(text_length), textStyle |-> textStyle,
                       fields |-> PyStr(fields)])])

create_style_requests_truthy(text_style, text_length) ==
    (IF Truthy(text_style.v.bold)
       THEN <<UpdateTextStyle(text_length, PyDict([bold |-> text_style.v.bold]), "bold")>>
       ELSE << >>)
    \o (IF Truthy(text_style.v.italic)
       THEN <<UpdateTextStyle(text_length, PyDict([italic |-> text_style.v.italic]),
                              "italic")>>
       ELSE << >>)
    \o (IF Truthy(text_style.v.underline)
       THEN <<UpdateTextStyle(text_length, PyDict([underline |-> text_style.v.underline]),
                              "underline")>>
       ELSE << >>)
    \o (IF Truthy(text_style.v.font_size)
       THEN <<UpdateTextStyle(text_length,
                  PyDict([fontSize |-> PyDict([magnitude |-> text_style.v.font_size,
                                               unit |-> PyStr("PT")])]),
                  "fontSize")>>
       ELSE << >>)

create_style_requests(text_style, text_length) ==
    (IF text_style.v.bold # None
       THEN <<UpdateTextStyle(text_length, PyDict([bold |-> text_style.v.bold]), "bold")>>
       ELSE << >>)
    \o (IF text_style.v.italic # None
       THEN <<UpdateTextStyle(text_length, PyDict([italic |-> text_style.v.italic]),
                              "italic")>>
       ELSE << >>)
    \o (IF text_style.v.underline # None
       THEN <<UpdateTextStyle(text_length, PyDict([underline |-> text_style.v.underline]),
                              "underline")>>
       ELSE << >>)
    \o (IF text_style.v.font_size # None
       THEN <<UpdateTextStyle(text_length,
                  PyDict([fontSize |-> PyDict([magnitude |-> text_style.v.font_size,
                                               unit |-> PyStr("PT")])]),
                  "fontSize")>>
       ELSE << >>)

-----------------------------------------------------------------------------
(* The bodies of the six execute methods, one operator per HTTP call: the *)
(* code from the previous call (or the entry) up to the next call or the  *)
(* return, given the outcome o of the call the step issues.               *)

\* {"body": {"content": [{"paragraph": {"elements": [{"textRun": {"content": c}}]}}]}}
TextRunBody(c) ==
    PyDict([content |-> PyList(<<PyDict([paragraph |-> PyDict([elements |->
                PyList(<<PyDict([textRun |-> PyDict([content |-> c])])>>)])])>>)])

\* CreateDocument.execute up to and including the handling of the create call
CreateDocument_create(req, auth, o) ==
    LET headers == HeadersOf(auth)
        create_url == Url(BaseUrlOf(auth), "/v1/documents", "", "")
        call == HttpCall("POST", create_url, headers, PyDict([title |-> req.v.title]), None)
    IN  IF o.kind = "neterr" THEN Raise(call, ConnectionError)
        ELSE IF o.status_code # 200
        THEN Return(call, BaseModel("CreateDocumentResponse", CreateDocumentResponse,
                                    [success |-> PyBool(FALSE)]))
        ELSE IF ~JsonOk(o) THEN Raise(call, JSONDecodeError)
        ELSE IF o.body.t # "dict" THEN Raise(call, AttributeErrorGet)
        ELSE LET document_id == Get(o.body, "documentId") IN
             IF Truthy(req.v.text)
             THEN Continue(call, "CreateDocument_update", document_id)
             ELSE Return(call, None)

\* the batchUpdate branch handing the id of the create response to the caller
CreateDocument_update_returning_id(req, auth, document_id, o) ==
    LET headers == HeadersOf(auth)
        update_url == Url(BaseUrlOf(auth), "/v1/documents/", Str(document_id), ":batchUpdate")
        requests_body == PyDict([title |-> req.v.title, body |-> TextRunBody(req.v.text)])
        call == HttpCall("POST", update_url, headers, requests_body, None)
    IN  IF o.kind = "neterr" THEN Raise(call, ConnectionError)
        ELSE IF ~JsonOk(o) THEN Raise(call, JSONDecodeError)
        ELSE Return(call, Envelope(o.status_code = 200,
                                   [success |-> o.body, document_id |-> document_id]))

\* CreateDocument.execute, the batchUpdate call of the `if req.text:` branch
CreateDocument_update(req, auth, document_id, o) ==
    LET headers == HeadersOf(auth)
        update_url == Url(BaseUrlOf(auth), "/v1/documents/", Str(document_id), ":batchUpdate")
        requests_body == PyDict([title |-> req.v.title, body |-> TextRunBody(req.v.text)])
        call == HttpCall("POST", update_url, headers, requests_body, None)
    IN  IF o.kind = "neterr" THEN Raise(call, ConnectionError)
        ELSE IF o.status_code = 200
        THEN IF JsonOk(o) THEN Return(call, Envelope(TRUE, [success |-> o.body]))
             ELSE Raise(call, JSONDecodeError)
        ELSE IF JsonOk(o) THEN Return(call, Envelope(FALSE, [success |-> o.body]))
             ELSE Raise(call, JSONDecodeError)

InsertText(text) ==
    PyDict([insertText |-> PyDict([location |-> PyDict([index |-> PyInt(1)]),
                                   text |-> text])])

AppendTextToDocument_execute(req, auth, text_length, o) ==
    LET headers == HeadersOf(auth)
        url == Url(BaseUrlOf(auth), "/v1/documents/", Str(req.v.document_id), ":batchUpdate")
    IN  IF ~HasAttr(req, "text_style") THEN Raise(NoCall, AttributeErrorTextStyle)
        ELSE LET style_requests ==
                     IF Truthy(req.v.text_style)
                     THEN create_style_requests(req.v.text_style, text_length)
                     ELSE << >>
                 data == PyDict([requests |->
                            PyList(<<InsertText(req.v.text_to_append)>> \o style_requests)])
                 call == HttpCall("POST", url, headers, data, None)
             IN  IF o.kind = "neterr" THEN Raise(call, ConnectionError)
                 ELSE IF ~JsonOk(o) THEN Raise(call, JSONDecodeError)
                 ELSE IF o.status_code = 200
                 THEN Return(call, Envelope(TRUE, [success |-> o.body]))
                 ELSE Return(call, Envelope(FALSE, [success |-> o.body]))

\* CreateDocumentFromTemplate.execute up to the POST of replace_placeholders
CreateDocumentFromTemplate_copy(req, auth, o) ==
    LET headers == HeadersOf(auth)
        url == Url(BaseUrlOf(auth), "/v1/documents/", Str(req.v.template_document_id), ":copy")
        data == PyDict([title |-> req.v.new_document_title])
        call == HttpCall("POST", url, headers, data, None)
    IN  IF o.kind = "neterr" THEN Raise(call, ConnectionError)
        ELSE IF o.status_code = 200
        THEN IF ~JsonOk(o) THEN Raise(call, JSONDecodeError)
             ELSE LET new_document == o.body IN
                  IF Truthy(new_document)
                  THEN IF new_document.t # "dict" THEN Raise(call, AttributeErrorGet)
                       ELSE Continue(call, "replace_placeholders", new_document)
                  ELSE Return(call, Envelope(FALSE, [success |-> PyBool(FALSE),
                                                     new_document |-> new_document]))
        ELSE Raise(call, UnboundLocalError)

ReplaceAllText(placeholder, replacement, matchCase) ==
    PyDict([replaceAllText |->
               PyDict([containsText |-> PyDict([text |-> PyStr(placeholder),
                                                matchCase |-> PyBool(matchCase)]),
                       replaceText |-> PyStr(replacement)])])

\* the loop of replace_placeholders over replacements.items()
RECURSIVE requests_list_skip_empty(_)
requests_list_skip_empty(items) ==
    IF items = << >> THEN << >>
    ELSE (IF Head(items).value = "" THEN << >>
          ELSE <<ReplaceAllText(Head(items).key, Head(items).value, TRUE)>>)
         \o requests_list_skip_empty(Tail(items))

RECURSIVE requests_list(_)
requests_list(items) ==
    IF items = << >> THEN << >>
    ELSE <<ReplaceAllText(Head(items).key, Head(items).value, TRUE)>>
         \o requests_list(Tail(items))

\* replace_placeholders not checking the status of its call
replace_placeholders_unchecked(req, auth, new_document, o) ==
    LET headers == HeadersOf(auth)
        base_url == DefaultBaseUrl
        document_id == Get(new_document, "documentId")
        url == Url(base_url, "/v1/documents/", Str(document_id), ":batchUpdate")
        data == PyDict([requests |-> PyList(requests_list(req.v.replacements.v))])
        call == HttpCall("POST", url, headers, data, None)
    IN  IF o.kind = "neterr" THEN Raise(call, ConnectionError)
        ELSE Return(call, Envelope(TRUE, [success |-> PyBool(TRUE),
                                          new_document |-> new_document]))

\* replace_placeholders and the rest of CreateDocumentFromTemplate.execute
replace_placeholders(req, auth, new_document, o) ==
    LET headers == HeadersOf(auth)
        base_url == DefaultBaseUrl
        document_id == Get(new_document, "documentId")
        url == Url(base_url, "/v1/documents/", Str(document_id), ":batchUpdate")
        data == PyDict([requests |-> PyList(requests_list(req.v.replacements.v))])
        call == HttpCall("POST", url, headers, data, None)
    IN  IF o.kind = "neterr" THEN Raise(call, ConnectionError)
        ELSE LET success == o.status_code = 200 IN
             IF success
             THEN Return(call, Envelope(TRUE, [success |-> PyBool(TRUE),
                                               new_document |-> new_document]))
             ELSE Return(call, Envelope(FALSE, [success |-> PyBool(FALSE),
                                                new_document |-> new_document]))

UploadDocument_execute(req, auth, file, o) ==
    LET headers == HeadersOf(auth)
        upload_url == Url(BaseUrlOf(auth), "/v1/documents:upload", "", "")
        file_content == file
        decoded == Utf8Decode(file_content)
    IN  IF ~decoded.ok THEN Raise(NoCall, UnicodeDecodeError)
        ELSE LET data == PyDict([content |-> [t |-> "text", v |-> decoded.text],
                                 fileName |-> req.v.file_name])
                 call == HttpCall("POST", upload_url, headers, data, None)
             IN  IF o.kind = "neterr" THEN Raise(call, ConnectionError)
                 ELSE IF o.status_code = 200
                 THEN IF ~JsonOk(o) THEN Raise(call, JSONDecodeError)
                      ELSE IF o.body.t # "dict" THEN Raise(call, AttributeErrorGet)
                      ELSE Return(call, Envelope(TRUE, [success |-> PyBool(TRUE),
                                                 document_id |-> Get(o.body, "id")]))
                 ELSE Return(call, Envelope(FALSE, [success |-> PyBool(FALSE),
                                                    document_id |-> None]))

CreateDocumentFromText_execute(req, auth, o) ==
    LET headers == HeadersOf(auth)
        url == Url(BaseUrlOf(auth), "/v1/documents", "", "")
        data == PyDict([title |-> req.v.title, body |-> TextRunBody(req.v.document_content)])
        call == HttpCall("POST", url, headers, data, None)
    IN  IF o.kind = "neterr" THEN Raise(call, ConnectionError)
        ELSE IF o.status_code = 200
        THEN IF ~JsonOk(o) THEN Raise(call, JSONDecodeError)
             ELSE IF o.body.t # "dict" THEN Raise(call, AttributeErrorGet)
             ELSE LET document_id == Get(o.body, "id") IN
                  Return(call, Envelope(TRUE, [success |-> PyBool(TRUE),
                                               document_id |-> document_id]))
        ELSE Return(call, Envelope(FALSE, [success |-> PyBool(FALSE),
                                           document_id |-> None]))

\* find_document returning the id of the last document listed
find_document_last(title, headers, base_url, o) ==
    LET url == Url(base_url, "/v1/documents", "", "")
        params == PyDict([title |-> title])
        call == HttpCall("GET", url, headers, None, params)
    IN  IF o.kind = "neterr" THEN Raise(call, ConnectionError)
        ELSE IF o.status_code = 200
        THEN IF ~JsonOk(o) THEN Raise(call, JSONDecodeError)
             ELSE IF o.body.t # "dict" THEN Raise(call, AttributeErrorGet)
             ELSE LET documents == GetDefault(o.body, "documents", PyList(<< >>)) IN
                  IF Truthy(documents)
                  THEN Return(call, Get(documents.v[Len(documents.v)], "id"))
                  ELSE Return(call, PyStr(""))
        ELSE Return(call, PyStr(""))

find_document(title, headers, base_url, o) ==
    LET url == Url(base_url, "/v1/documents", "", "")
        params == PyDict([title |-> title])
        call == HttpCall("GET", url, headers, None, params)
    IN  IF o.kind = "neterr" THEN Raise(call, ConnectionError)
        ELSE IF o.status_code = 200
        THEN IF ~JsonOk(o) THEN Raise(call, JSONDecodeError)
             ELSE IF o.body.t # "dict" THEN Raise(call, AttributeErrorGet)
             ELSE LET documents == GetDefault(o.body, "documents", PyList(<< >>)) IN
                  IF Truthy(documents) THEN Return(call, Get(documents.v[1], "id"))
                  ELSE Return(call, PyStr(""))
        ELSE Return(call, PyStr(""))

\* create_document reading the id whatever the status of its call
create_document_unchecked(title, headers, base_url, o) ==
    LET data == PyDict([title |-> title])
        url == Url(base_url, "/v1/documents", "", "")
        call == HttpCall("POST", url, headers, data, None)
    IN  IF o.kind = "neterr" THEN Raise(call, ConnectionError)
        ELSE IF ~JsonOk(o) THEN Raise(call, JSONDecodeError)
        ELSE IF o.body.t # "dict" THEN Raise(call, AttributeErrorGet)
        ELSE Return(call, Get(o.body, "id"))

create_document(title, headers, base_url, o) ==
    LET data == PyDict([title |-> title])
        url == Url(base_url, "/v1/documents", "", "")
        call == HttpCall("POST", url, headers, data, None)
    IN  IF o.kind = "neterr" THEN Raise(call, ConnectionError)
        ELSE IF o.status_code = 200
        THEN IF ~JsonOk(o) THEN Raise(call, JSONDecodeError)
             ELSE IF o.body.t # "dict" THEN Raise(call, AttributeErrorGet)
             ELSE Return(call, Get(o.body, "id"))
        ELSE Return(call, PyStr(""))

\* FindOrCreateDocument.execute up to the call of create_document
FindOrCreateDocument_find(req, auth, o) ==
    LET headers == HeadersOf(auth)
        base_url == BaseUrlOf(auth)
        found == find_document(req.v.document_title, headers, base_url, o)
        document_id == found.value
    IN  IF found.kind = "raise" THEN found
        ELSE IF Truthy(document_id)
        THEN Return(found.call, Envelope(TRUE, [success |-> PyBool(TRUE),
                                                document_id |-> document_id]))
        ELSE Continue(found.call, "create_document", document_id)

\* FindOrCreateDocument.execute, the else branch
FindOrCreateDocument_create(req, auth, o) ==
    LET headers == HeadersOf(auth)
        base_url == BaseUrlOf(auth)
        created == create_document(req.v.document_title, headers, base_url, o)
        new_document_id == created.value
    IN  IF created.kind = "raise" THEN created
        ELSE IF Truthy(new_document_id)
        THEN Return(created.call, Envelope(TRUE, [success |-> PyBool(TRUE),
                                                  document_id |-> new_document_id]))
        ELSE Return(created.call, Envelope(FALSE, [success |-> PyBool(FALSE),
                                                   document_id |-> None]))

-----------------------------------------------------------------------------
(* What the host runtime may submit: an action, the untyped input the     *)
(* request is constructed from, the authorisation data and the parameters *)
(* passed beside the request (text_length, the uploaded file).            *)

Restrict(f, keys) == [k \in keys |-> f[k]]

BearerHeaders == PyDict([Authorization |-> PyStr("Bearer token")])
AuthDefault == PyDict([headers |-> BearerHeaders])
AuthMock == PyDict([headers |-> BearerHeaders, base_url |-> PyStr("http://mock")])

NoExtra == [text_length |-> 0, file |-> << >>]

TextStyleObject(bold, italic, underline, font_size) ==
    [t |-> "model", cls |-> "TextStyle",
     v |-> [bold |-> bold, italic |-> italic, underline |-> underline,
            font_size |-> font_size]]

PlaceholderKeys == {"{{name}}", "{{date}}", "{{id}}"}
ReplacementValues == {"Alice", ""}

\* the items of a Dict[str, str] in insertion order: keys are unique
ReplacementItems ==
    {s \in UNION {[1..n -> [key : PlaceholderKeys, value : ReplacementValues]] :
                      n \in 0..MaxRepl} :
        \A j, k \in DOMAIN s : j # k => s[j].key # s[k].key}

Replacements(items) == [t |-> "dict_items", v |-> items]

Files == UNION {[1..n -> ByteAlphabet] : n \in 0..MaxFileLen}

Input(a, kwargs, auth, extra) ==
    [action |-> a, kwargs |-> kwargs, auth |-> auth, extra |-> extra]

CreateDocumentInputs ==
    {Restrict([title |-> PyStr("t1"), text |-> tx], ks) :
        tx \in {PyStr(""), PyStr("hi")}, ks \in SUBSET {"title", "text"}}

AppendTextInputs ==
    {Restrict([document_id |-> PyStr("d1"), text_to_append |-> PyStr("hi"),
               text_style |-> TextStyleObject(PyBool(TRUE), None, None, None)], ks) :
        ks \in {{"document_id", "text_to_append"},
                {"document_id", "text_to_append", "text_style"},
                {"document_id"}}}

TemplateInputs ==
    {Restrict([template_document_id |-> PyStr("tpl"), replacements |-> Replacements(r),
               new_document_title |-> PyStr("t1")], ks) :
        r \in ReplacementItems,
        ks \in {{"template_document_id", "replacements"},
                {"template_document_id", "replacements", "new_document_title"}}}

UploadInputs == {EmptyDict, [file_name |-> PyStr("f.txt")]}

FromTextInputs == {[document_content |-> PyStr("<b>hi</b>"), title |-> PyStr("t1")]}

FindOrCreateInputs == {EmptyDict, [document_title |-> PyStr("t1")]}

InputsWith(au) ==
    {Input("CreateDocument", k, au, NoExtra) : k \in CreateDocumentInputs}
    \cup {Input("AppendTextToDocument", k, au, [text_length |-> n, file |-> << >>]) :
              k \in AppendTextInputs, n \in {0, MaxTextLen}}
    \cup {Input("CreateDocumentFromTemplate", k, au, NoExtra) : k \in TemplateInputs}
    \cup {Input("UploadDocument", k, au, [text_length |-> 0, file |-> f]) :
              k \in UploadInputs, f \in Files}
    \cup {Input("CreateDocumentFromText", k, au, NoExtra) : k \in FromTextInputs}
    \cup {Input("FindOrCreateDocument", k, au, NoExtra) : k \in FindOrCreateInputs}

AnyHost == InputsWith(AuthDefault) \cup InputsWith(AuthMock)

\* one well-formed request per action
PlainHost ==
    {Input("CreateDocument", [title |-> PyStr("t1"), text |-> PyStr("hi")],
           AuthDefault, NoExtra),
     Input("AppendTextToDocument",
           [document_id |-> PyStr("d1"), text_to_append |-> PyStr("hi")],
           AuthDefault, [text_length |-> 2, file |-> << >>]),
     Input("CreateDocumentFromTemplate",
           [template_document_id |-> PyStr("tpl"),
            replacements |-> Replacements(<<[key |-> "{{name}}", value |-> "Alice"]>>)],
           AuthDefault, NoExtra),
     Input("UploadDocument", [file_name |-> PyStr("f.txt")], AuthDefault,
           [text_length |-> 0, file |-> <<65>>]),
     Input("CreateDocumentFromText",
           [document_content |-> PyStr("<b>hi</b>"), title |-> PyStr("t1")],
           AuthDefault, NoExtra),
     Input("FindOrCreateDocument", [document_title |-> PyStr("t1")], AuthDefault, NoExtra)}

-----------------------------------------------------------------------------
(* The state machine.                                                      *)

Slots == DOMAIN pc

NoInvocation == [action |-> "", req |-> None, auth |-> None, extra |-> NoExtra]
NoStyleInput == [text_style |-> None, text_length |-> 0]
NotCalled == [called |-> FALSE, value |-> << >>]

TextStyles ==
    {TextStyleObject(b, i, u, f) :
        b \in {None, PyBool(TRUE), PyBool(FALSE)},
        i \in {None, PyBool(TRUE), PyBool(FALSE)},
        u \in {None, PyBool(TRUE), PyBool(FALSE)},
        f \in {None, PyInt(12)}}

InitWith(slots, svc, hst, styles) ==
    /\ pc = [i \in slots |-> "idle"]
    /\ invocation = [i \in slots |-> NoInvocation]
    /\ local = [i \in slots |-> None]
    /\ calls = [i \in slots |-> << >>]
    /\ raised = [i \in slots |-> NoExc]
    /\ result = [i \in slots |-> NotReturned]
    /\ self_state = EmptyDict
    /\ interleaved = [i \in slots |-> FALSE]
    /\ service = svc
    /\ host = hst
    /\ style_in \in styles
    /\ style_out = NotCalled

\* the host constructs the typed request from the untyped input (which fails
\* when a required field is missing) and calls execute
Start(i) ==
    /\ pc[i] = "idle"
    /\ \E inp \in host :
          /\ RequiredGiven(request_schema(inp.action), inp.kwargs)
          /\ invocation' = [invocation EXCEPT ![i] =
                 [action |-> inp.action,
                  req |-> BaseModel(RequestClass(inp.action), request_schema(inp.action),
                                   inp.kwargs),
                  auth |-> inp.auth, extra |-> inp.extra]]
    /\ pc' = [pc EXCEPT ![i] = "execute"]
    /\ UNCHANGED <<local, calls, raised, result, self_state, interleaved, service, host,
                   style_in, style_out>>

\* the invocation is between its two HTTP calls
MidFlight(j) == pc[j] \in {"CreateDocument_update", "replace_placeholders", "create_document"}

\* a step of execute ends as c says, the call it issued having had outcome o
Apply(i, c, o) ==
    /\ pc' = [pc EXCEPT ![i] = c.next]
    /\ local' = [local EXCEPT ![i] = c.local]
    /\ calls' = IF c.call.method = "" THEN calls
                ELSE [calls EXCEPT ![i] = Append(@, [request |-> c.call, outcome |-> o])]
    /\ interleaved' = [interleaved EXCEPT ![i] =
          @ \/ (c.call.method # "" /\ \E j \in Slots \ {i} : MidFlight(j))]
    /\ raised' = [raised EXCEPT ![i] = c.exc]
    /\ result' = [result EXCEPT ![i] =
          IF c.kind = "continue" THEN NotReturned
          ELSE TryExcept(c, ExceptEnvelope(invocation[i].action, c.exc))]
    /\ UNCHANGED <<invocation, self_state, service, host, style_in, style_out>>

Entered(i, a) == pc[i] = "execute" /\ invocation[i].action = a

ExecCreateDocument(i) ==
    /\ Entered(i, "CreateDocument")
    /\ \E o \in service.doc :
          Apply(i, CreateDocument_create(invocation[i].req, invocation[i].auth, o), o)

ExecCreateDocumentUpdate(i) ==
    /\ pc[i] = "CreateDocument_update"
    /\ \E o \in service.doc :
          Apply(i, CreateDocument_update(invocation[i].req, invocation[i].auth,
                                         local[i], o), o)

ExecAppendTextToDocument(i) ==
    /\ Entered(i, "AppendTextToDocument")
    /\ \E o \in service.doc :
          Apply(i, AppendTextToDocument_execute(invocation[i].req, invocation[i].auth,
                                                invocation[i].extra.text_length, o), o)

ExecCreateDocumentFromTemplate(i) ==
    /\ Entered(i, "CreateDocumentFromTemplate")
    /\ \E o \in service.doc :
          Apply(i, CreateDocumentFromTemplate_copy(invocation[i].req,
                                                   invocation[i].auth, o), o)

\* as if execute kept new_document in an attribute of the action instance,
\* which every invocation of the action shares
ExecReplacePlaceholdersShared(i) ==
    /\ pc[i] = "replace_placeholders"
    /\ \E j \in Slots, o \in service.doc :
          /\ pc[j] = "replace_placeholders"
          /\ Apply(i, replace_placeholders(invocation[i].req, invocation[i].auth,
                                           local[j], o), o)

ExecReplacePlaceholders(i) ==
    /\ pc[i] = "replace_placeholders"
    /\ \E o \in service.doc :
          Apply(i, replace_placeholders(invocation[i].req, invocation[i].auth,
                                        local[i], o), o)

ExecUploadDocument(i) ==
    /\ Entered(i, "UploadDocument")
    /\ \E o \in service.doc :
          Apply(i, UploadDocument_execute(invocation[i].req, invocation[i].auth,
                                          invocation[i].extra.file, o), o)

\* as if execute kept the results of earlier invocations by request and
\* answered a repeated request from them
ExecCreateDocumentFromTextDedup(i) ==
    /\ Entered(i, "CreateDocumentFromText")
    /\ IF \E j \in Slots \ {i} :
              /\ pc[j] = "done"
              /\ invocation[j] = invocation[i]
              /\ result[j].t = "dict"
              /\ result[j].v.execution_details.v.executed.v
       THEN \E j \in Slots \ {i} :
              /\ pc[j] = "done"
              /\ invocation[j] = invocation[i]
              /\ result[j].t = "dict"
              /\ result[j].v.execution_details.v.executed.v
              /\ Apply(i, Return(NoCall, result[j]), NetworkError)
       ELSE \E o \in service.doc :
              Apply(i, CreateDocumentFromText_execute(invocation[i].req,
                                                      invocation[i].auth, o), o)

ExecCreateDocumentFromText(i) ==
    /\ Entered(i, "CreateDocumentFromText")
    /\ \E o \in service.doc :
          Apply(i, CreateDocumentFromText_execute(invocation[i].req,
                                                  invocation[i].auth, o), o)

ExecFindDocument(i) ==
    /\ Entered(i, "FindOrCreateDocument")
    /\ \E o \in service.list :
          Apply(i, FindOrCreateDocument_find(invocation[i].req, invocation[i].auth, o), o)

ExecCreateFoundMissing(i) ==
    /\ pc[i] = "create_document"
    /\ \E o \in service.doc :
          Apply(i, FindOrCreateDocument_create(invocation[i].req, invocation[i].auth, o), o)

Next ==
    \/ \E i \in Slots : Start(i)
    \/ \E i \in Slots : ExecCreateDocument(i)
    \/ \E i \in Slots : ExecCreateDocumentUpdate(i)
    \/ \E i \in Slots : ExecAppendTextToDocument(i)
    \/ \E i \in Slots : ExecCreateDocumentFromTemplate(i)
    \/ \E i \in Slots : ExecReplacePlaceholders(i)
    \/ \E i \in Slots : ExecUploadDocument(i)
    \/ \E i \in Slots : ExecCreateDocumentFromText(i)
    \/ \E i \in Slots : ExecFindDocument(i)
    \/ \E i \in Slots : ExecCreateFoundMissing(i)

\* one invocation at a time, any request, any behaviour of the service
Init == InitWith({1}, AnyService, AnyHost, {NoStyleInput})
Spec == Init /\ [][Next]_vars

\* NumInv invocations in parallel
InitPar == InitWith(1..NumInv, PlainService, PlainHost, {NoStyleInput})
SpecPar == InitPar /\ [][Next]_vars

\* a direct call of create_style_requests
StyleInputs ==
    {[text_style |-> ts, text_length |-> n] : ts \in TextStyles, n \in 0..MaxTextLen}

StyleCall ==
    /\ ~style_out.called
    /\ style_out' = [called |-> TRUE,
                     value |-> create_style_requests(style_in.text_style,
                                                     style_in.text_length)]
    /\ UNCHANGED <<pc, invocation, local, calls, raised, result, self_state, interleaved,
                   service, host, style_in>>

InitStyle == InitWith({}, AnyService, AnyHost, StyleInputs)
NextStyle == StyleCall
SpecStyle == InitStyle /\ [][NextStyle]_vars

-----------------------------------------------------------------------------
(* Reading the state.                                                      *)

Done(i) == pc[i] = "done"
ActionOf(i) == invocation[i].action

IsEnvelope(r) ==
    /\ r.t = "dict"
    /\ DOMAIN r.v = {"execution_details", "response_data"}
    /\ DOMAIN r.v.execution_details.v = {"executed"}
Executed(r) == r.v.execution_details.v.executed.v
ResponseData(r) == r.v.response_data

\* the call had a response, and its status was not 200
Failed(o) == o.kind # "neterr" /\ o.status_code # 200
Ok200(o) == o.kind # "neterr" /\ o.status_code = 200

Posts(i) == {k \in DOMAIN calls[i] : calls[i][k].request.method = "POST"}

-----------------------------------------------------------------------------
(* C1: no exception propagates out of execute: whenever a step of the     *)
(* body raises, execute returns an envelope with executed = false,        *)
(* success = false and error = the message of the exception.              *)

C1_ExceptionsBecomeEnvelopes ==
    \A i \in Slots :
        /\ result[i].t # "raised"
        /\ (Done(i) /\ raised[i] # NoExc) =>
              /\ IsEnvelope(result[i])
              /\ ~Executed(result[i])
              /\ Get(ResponseData(result[i]), "success") = PyBool(FALSE)
              /\ Get(ResponseData(result[i]), "error") = PyStr(raised[i].msg)

\* UploadDocument was given a file that is not UTF-8 and has returned
C1_Witness ==
    \E i \in Slots :
        /\ Done(i)
        /\ ActionOf(i) = "UploadDocument"
        /\ ~Utf8Decode(invocation[i].extra.file).ok
        /\ raised[i] = UnicodeDecodeError
        /\ IsEnvelope(result[i])

-----------------------------------------------------------------------------
(* C2: if the first HTTP call of an invocation returns a status other     *)
(* than 200, execute returns an envelope whose executed is false.         *)

C2_FirstCallFailedGivesEnvelope ==
    \A i \in Slots :
        (Done(i) /\ Len(calls[i]) >= 1 /\ Failed(calls[i][1].outcome)) =>
            (IsEnvelope(result[i]) /\ ~Executed(result[i]))

-----------------------------------------------------------------------------
(* C3: a failed HTTP call is terminal: after a call of an invocation has  *)
(* returned a status other than 200, the invocation issues no further     *)
(* call.                                                                  *)

C3_FailedCallIsLast ==
    \A i \in Slots :
        \A k \in DOMAIN calls[i] :
            Failed(calls[i][k].outcome) => k = Len(calls[i])

-----------------------------------------------------------------------------
(* FindOrCreateDocument: reading the query and the create call.            *)

FindOrCreateDone(i) == Done(i) /\ ActionOf(i) = "FindOrCreateDocument"

\* the documents a query response lists (none when it has no such list)
DocumentsOf(o) ==
    IF o.kind = "json" /\ o.body.t = "dict"
    THEN GetDefault(o.body, "documents", PyList(<< >>)).v
    ELSE << >>

\* the query was answered with status 200 and a JSON object
Answered(o) == Ok200(o) /\ o.kind = "json" /\ o.body.t = "dict"

\* the id a response body carries, None when it carries none
IdOf(o) == IF o.kind = "json" /\ o.body.t = "dict" THEN Get(o.body, "id") ELSE None

\* the create calls: POST /v1/documents with the title
CreateCalls(i) ==
    {k \in DOMAIN calls[i] :
        /\ calls[i][k].request.method = "POST"
        /\ calls[i][k].request.url.path = "/v1/documents"
        /\ calls[i][k].request.json =
              PyDict([title |-> invocation[i].req.v.document_title])}

-----------------------------------------------------------------------------
(* C4 as stated: when the title query returns zero documents, exactly one *)
(* create call is issued and the id in the create response is the         *)
(* document_id of the returned envelope; when the query returns at least  *)
(* one document, that document's id is returned and no create call is     *)
(* issued.                                                                *)

C4_Original ==
    \A i \in Slots :
        FindOrCreateDone(i) /\ Answered(calls[i][1].outcome) =>
            LET query == calls[i][1].outcome
                documents == DocumentsOf(query)
            IN  IF documents = << >>
                THEN /\ Cardinality(CreateCalls(i)) = 1
                     /\ IsEnvelope(result[i])
                     /\ Get(ResponseData(result[i]), "document_id")
                            = IdOf(calls[i][Len(calls[i])].outcome)
                ELSE /\ CreateCalls(i) = {}
                     /\ IsEnvelope(result[i])
                     /\ Get(ResponseData(result[i]), "document_id")
                            = Get(documents[1], "id")

(* C4 as amended: when the query returns 200 with zero documents, exactly *)
(* one create call is issued; if it returns 200 with a non-empty id, the  *)
(* envelope has executed = true and that id as document_id, otherwise     *)
(* executed = false and document_id = None.  When the query returns 200   *)
(* with at least one document and the first one has a non-empty id, that  *)
(* id is returned with executed = true and no create call is issued.      *)
C4_FindOrCreate ==
    \A i \in Slots :
        FindOrCreateDone(i) /\ Answered(calls[i][1].outcome) =>
            LET query == calls[i][1].outcome
                documents == DocumentsOf(query)
                create == calls[i][Len(calls[i])].outcome
            IN  IF documents = << >>
                THEN /\ Cardinality(CreateCalls(i)) = 1
                     /\ Len(calls[i]) = 2
                     /\ IsEnvelope(result[i])
                     /\ IF Answered(create) /\ Truthy(IdOf(create))
                        THEN /\ Executed(result[i])
                             /\ Get(ResponseData(result[i]), "document_id") = IdOf(create)
                        ELSE /\ ~Executed(result[i])
                             /\ Get(ResponseData(result[i]), "document_id") = None
                ELSE Truthy(Get(documents[1], "id")) =>
                     /\ CreateCalls(i) = {}
                     /\ Len(calls[i]) = 1
                     /\ result[i] = Envelope(TRUE, [success |-> PyBool(TRUE),
                                                    document_id |-> Get(documents[1], "id")])

\* the query listed no document, one create call was issued and its id returned
C4_Witness ==
    \E i \in Slots :
        /\ FindOrCreateDone(i)
        /\ Answered(calls[i][1].outcome)
        /\ DocumentsOf(calls[i][1].outcome) = << >>
        /\ Cardinality(CreateCalls(i)) = 1
        /\ Executed(result[i])
        /\ Get(ResponseData(result[i]), "document_id") = PyStr("d2")

\* the query listed two documents and the id of the first was returned
C4_WitnessFound ==
    \E i \in Slots :
        /\ FindOrCreateDone(i)
        /\ Answered(calls[i][1].outcome)
        /\ Len(DocumentsOf(calls[i][1].outcome)) = 2
        /\ Executed(result[i])
        /\ CreateCalls(i) = {}

-----------------------------------------------------------------------------
(* C5: CreateDocumentFromTemplate returns executed = true and success =   *)
(* true only if the copy call and the batchUpdate call both returned 200, *)
(* and then new_document is the whole body of the copy response; in every *)
(* other outcome executed and success are both false.                     *)

TemplateDone(i) == Done(i) /\ ActionOf(i) = "CreateDocumentFromTemplate"

C5_WitnessSecondFailed ==
    \E i \in Slots :
        /\ TemplateDone(i)
        /\ Len(calls[i]) = 2
        /\ Failed(calls[i][2].outcome)
        /\ ~Executed(result[i])

-----------------------------------------------------------------------------
(* C6: replace_placeholders sends exactly one replaceAllText entry per    *)
(* key of the replacements mapping (containsText.text = key, matchCase =  *)
(* true, replaceText = the key's value) and nothing else, all in one      *)
(* batchUpdate POST addressed to the documentId of the copy response.     *)

\* the invocation has issued the POST of replace_placeholders
Replaced(i) == ActionOf(i) = "CreateDocumentFromTemplate" /\ Len(calls[i]) = 2

EntryFor(entry, item) ==
    /\ DOMAIN entry.v = {"replaceAllText"}
    /\ entry.v.replaceAllText.v.containsText.v.text = PyStr(item.key)
    /\ entry.v.replaceAllText.v.containsText.v.matchCase = PyBool(TRUE)
    /\ entry.v.replaceAllText.v.replaceText = PyStr(item.value)

C6_OneEntryPerKey ==
    \A i \in Slots :
        Replaced(i) =>
            LET items == invocation[i].req.v.replacements.v
                sent == calls[i][2].request
                entries == sent.json.v.requests.v
            IN  /\ sent.method = "POST"
                /\ sent.url.verb = ":batchUpdate"
                /\ sent.url.id = Str(Get(calls[i][1].outcome.body, "documentId"))
                /\ DOMAIN sent.json.v = {"requests"}
                /\ Len(entries) = Len(items)
                /\ \A j \in DOMAIN items :
                      Cardinality({k \in DOMAIN entries : EntryFor(entries[k], items[j])}) = 1
                /\ \A k \in DOMAIN entries :
                      \E j \in DOMAIN items : EntryFor(entries[k], items[j])

\* a mapping of two keys, one of them replaced by the empty string
C6_Witness ==
    \E i \in Slots :
        /\ Replaced(i)
        /\ Len(invocation[i].req.v.replacements.v) = 2
        /\ \E j \in 1..2 : invocation[i].req.v.replacements.v[j].value = ""

-----------------------------------------------------------------------------
(* C7: AppendTextToDocument.execute issues exactly one POST to            *)
(* /v1/documents/{document_id}:batchUpdate whose request list starts with *)
(* an insertText at index 1 carrying text_to_append, and returns the      *)
(* envelope keyed on that call's status.                                  *)

C7_AppendIssuesOnePost ==
    \A i \in Slots :
        (Done(i) /\ ActionOf(i) = "AppendTextToDocument") =>
            /\ Len(calls[i]) = 1
            /\ calls[i][1].request.method = "POST"
            /\ calls[i][1].request.url.verb = ":batchUpdate"
            /\ calls[i][1].request.url.id = Str(invocation[i].req.v.document_id)
            /\ Head(calls[i][1].request.json.v.requests.v)
                  = InsertText(invocation[i].req.v.text_to_append)
            /\ (calls[i][1].outcome.kind = "json" =>
                   /\ IsEnvelope(result[i])
                   /\ Executed(result[i]) = (calls[i][1].outcome.status_code = 200))

-----------------------------------------------------------------------------
(* C8: create_style_requests returns exactly one updateTextStyle entry    *)
(* per style attribute that is not None and none for one that is None,    *)
(* each with range startIndex = 1 and endIndex = text_length + 1.         *)

StyleFields == {"bold", "italic", "underline", "fontSize"}

StyleAttribute(text_style, field) ==
    IF field = "fontSize" THEN text_style.v.font_size ELSE text_style.v[field]

C8_StyleRequests ==
    style_out.called =>
        LET out == style_out.value
            ts == style_in.text_style
        IN  /\ \A f \in StyleFields :
                  Cardinality({k \in DOMAIN out :
                                  out[k].v.updateTextStyle.v.fields = PyStr(f)})
                      = IF StyleAttribute(ts, f) = None THEN 0 ELSE 1
            /\ \A k \in DOMAIN out :
                  /\ DOMAIN out[k].v = {"updateTextStyle"}
                  /\ out[k].v.updateTextStyle.v.fields.v \in StyleFields
                  /\ out[k].v.updateTextStyle.v.range.startIndex = 1
                  /\ out[k].v.updateTextStyle.v.range.endIndex = style_in.text_length + 1

\* text_style = {bold: true}, text_length = 5: one entry, over [1, 6)
C8_Witness ==
    /\ style_out.called
    /\ style_in.text_style = TextStyleObject(PyBool(TRUE), None, None, None)
    /\ style_in.text_length = 5
    /\ Len(style_out.value) = 1
    /\ style_out.value[1].v.updateTextStyle.v.range = [startIndex |-> 1, endIndex |-> 6]

\* an attribute set to False still gets its entry
C8_WitnessFalse ==
    /\ style_out.called
    /\ style_in.text_style = TextStyleObject(PyBool(FALSE), None, None, None)
    /\ Len(style_out.value) = 1

-----------------------------------------------------------------------------
(* An invocation run alone: the steps of execute applied one after the   *)
(* other to the outcomes of its calls.                                    *)

StepBody(inv, at, loc, o) ==
    CASE at = "execute" /\ inv.action = "CreateDocument" ->
            CreateDocument_create(inv.req, inv.auth, o)
      [] at = "CreateDocument_update" ->
            CreateDocument_update(inv.req, inv.auth, loc, o)
      [] at = "execute" /\ inv.action = "AppendTextToDocument" ->
            AppendTextToDocument_execute(inv.req, inv.auth, inv.extra.text_length, o)
      [] at = "execute" /\ inv.action = "CreateDocumentFromTemplate" ->
            CreateDocumentFromTemplate_copy(inv.req, inv.auth, o)
      [] at = "replace_placeholders" ->
            replace_placeholders(inv.req, inv.auth, loc, o)
      [] at = "execute" /\ inv.action = "UploadDocument" ->
            UploadDocument_execute(inv.req, inv.auth, inv.extra.file, o)
      [] at = "execute" /\ inv.action = "CreateDocumentFromText" ->
            CreateDocumentFromText_execute(inv.req, inv.auth, o)
      [] at = "execute" /\ inv.action = "FindOrCreateDocument" ->
            FindOrCreateDocument_find(inv.req, inv.auth, o)
      [] at = "create_document" ->
            FindOrCreateDocument_create(inv.req, inv.auth, o)

IssuedBy(c) == IF c.call.method = "" THEN << >> ELSE <<c.call>>

\* outs: the outcomes of the calls, in order (a step that ends before its
\* call reads none)
RunAlone(inv, outs) ==
    LET o1 == IF Len(outs) >= 1 THEN outs[1] ELSE NetworkError
        c1 == StepBody(inv, "execute", None, o1)
    IN  IF c1.kind # "continue"
        THEN [result |-> TryExcept(c1, ExceptEnvelope(inv.action, c1.exc)),
              requests |-> IssuedBy(c1)]
        ELSE LET o2 == IF Len(outs) >= 2 THEN outs[2] ELSE NetworkError
                 c2 == StepBody(inv, c1.next, c1.local, o2)
             IN  [result |-> TryExcept(c2, ExceptEnvelope(inv.action, c2.exc)),
                  requests |-> IssuedBy(c1) \o IssuedBy(c2)]

OutcomesOf(i) == [k \in DOMAIN calls[i] |-> calls[i][k].outcome]
RequestsOf(i) == [k \in DOMAIN calls[i] |-> calls[i][k].request]

-----------------------------------------------------------------------------
(* C9: invocations run in parallel are independent: no instance or module *)
(* state is mutated, and every invocation returns the result and issues   *)
(* the calls it would when run alone with the same request and the same   *)
(* HTTP responses.                                                        *)

C9_Independent ==
    /\ self_state = EmptyDict
    /\ \A i \in Slots :
          Done(i) =>
              LET alone == RunAlone(invocation[i], OutcomesOf(i)) IN
              /\ result[i] = alone.result
              /\ RequestsOf(i) = alone.requests

\* two invocations of the same action whose calls interleaved and whose
\* responses differed
C9_Witness ==
    \E i, j \in Slots :
        /\ i # j
        /\ Done(i) /\ Done(j)
        /\ ActionOf(i) = ActionOf(j)
        /\ Len(calls[i]) = 2 /\ Len(calls[j]) = 2
        /\ interleaved[i] /\ interleaved[j]
        /\ result[i] # result[j]

-----------------------------------------------------------------------------
(* C10 as stated: no action deduplicates: every successful invocation of  *)
(* each of the six actions has issued its document-creating or            *)
(* document-mutating call, also when an identical request succeeded       *)
(* before.                                                                *)

Succeeded(i) == Done(i) /\ IsEnvelope(result[i]) /\ Executed(result[i])

C10_Original ==
    \A i \in Slots : Succeeded(i) => Posts(i) # {}

\* the query of a FindOrCreateDocument invocation found a document
Found(i) ==
    /\ ActionOf(i) = "FindOrCreateDocument"
    /\ Len(calls[i]) >= 1
    /\ Answered(calls[i][1].outcome)
    /\ DocumentsOf(calls[i][1].outcome) # << >>
    /\ Truthy(Get(DocumentsOf(calls[i][1].outcome)[1], "id"))

RECURSIVE PostCount(_)
PostCount(slots) ==
    IF slots = {} THEN 0
    ELSE LET i == CHOOSE x \in slots : TRUE IN
         Cardinality(Posts(i)) + PostCount(slots \ {i})

(* C10 as amended: the five actions other than FindOrCreateDocument do    *)
(* not deduplicate: every successful invocation has issued its POST, so N *)
(* successful invocations cause at least N POST calls.                    *)
(* FindOrCreateDocument repeats its query on every invocation and issues  *)
(* its create call exactly when the query yields no document id, so a     *)
(* successful invocation whose query found the document issues no create  *)
(* or mutate call.                                                        *)
C10_NoDeduplication ==
    /\ \A i \in Slots :
          Succeeded(i) =>
              /\ calls[i] # << >>
              /\ Found(i) => (Len(calls[i]) = 1 /\ Posts(i) = {})
              /\ ~Found(i) => Posts(i) # {}
    /\ PostCount(Slots) >= Cardinality({i \in Slots : Succeeded(i) /\ ~Found(i)})

\* the same request, submitted twice, succeeded twice and was sent twice
C10_Witness ==
    \E i, j \in Slots :
        /\ i # j
        /\ invocation[i] = invocation[j]
        /\ ActionOf(i) = "CreateDocumentFromText"
        /\ Succeeded(i) /\ Succeeded(j)
        /\ result[i] = result[j]
        /\ Posts(i) # {} /\ Posts(j) # {}

-----------------------------------------------------------------------------
(* CreateDocument: reading the create call and the batchUpdate call.       *)

CreateDocumentDone(i) == Done(i) /\ ActionOf(i) = "CreateDocument"

\* the create call returned 200 with a JSON object, so execute went past it
Created(i) ==
    /\ Len(calls[i]) >= 1
    /\ Answered(calls[i][1].outcome)

TextSupplied(i) == Truthy(invocation[i].req.v.text)

\* execute ended in its `if req.text:` test without entering the branch
NoTextBranch(i) ==
    /\ CreateDocumentDone(i)
    /\ Created(i)
    /\ ~TextSupplied(i)

\* the values execute hands back: an envelope or a response model
IsResultObject(r) == r.t \in {"dict", "model"}

-----------------------------------------------------------------------------
(* C11: every invocation that has ended returned a result object, an      *)
(* envelope or a response model, and nothing was raised past execute,     *)
(* except that CreateDocument returns None exactly when its create call   *)
(* returned 200 and no text was supplied.  When text was supplied and the *)
(* create call returned 200, one batchUpdate call follows and the result  *)
(* is built from that call alone: executed is true exactly when the       *)
(* batchUpdate response has status 200, response_data holds the body of   *)
(* that response under success and nothing else, so the id of the create  *)
(* response is not handed back; when the batchUpdate call gave no JSON    *)
(* response the failure envelope is returned.                             *)

C11_WitnessSecondCallOnly ==
    \E i \in Slots :
        /\ CreateDocumentDone(i)
        /\ Created(i)
        /\ TextSupplied(i)
        /\ Get(calls[i][1].outcome.body, "documentId") = PyStr("d1")
        /\ Len(calls[i]) = 2
        /\ calls[i][2].outcome = Response(500, PyDict(EmptyDict))
        /\ result[i] = Envelope(FALSE, [success |-> PyDict(EmptyDict)])

\* both calls returned 200 and the envelope carries only the second body
C11_WitnessBothOk ==
    \E i \in Slots :
        /\ CreateDocumentDone(i)
        /\ Created(i)
        /\ TextSupplied(i)
        /\ Get(calls[i][1].outcome.body, "documentId") = PyStr("d1")
        /\ Len(calls[i]) = 2
        /\ calls[i][2].outcome = Response(200, PyDict(EmptyDict))
        /\ result[i] = Envelope(TRUE, [success |-> PyDict(EmptyDict)])

-----------------------------------------------------------------------------
(* C12: whenever execute has returned an envelope whose executed is true, *)
(* the invocation issued at least one HTTP call and the last call it      *)
(* issued was answered with status 200.                                   *)

LastCall(i) == calls[i][Len(calls[i])]

C12_ExecutedMeansLastCallOk ==
    \A i \in Slots :
        Succeeded(i) =>
            /\ Len(calls[i]) >= 1
            /\ Ok200(LastCall(i).outcome)

\* executed is true although an earlier call of the invocation had failed
C12_Witness ==
    \E i \in Slots :
        /\ Succeeded(i)
        /\ Len(calls[i]) = 2
        /\ Failed(calls[i][1].outcome)
        /\ Ok200(LastCall(i).outcome)

\* executed is true after a single call
C12_WitnessOneCall ==
    \E i \in Slots :
        /\ Succeeded(i)
        /\ Len(calls[i]) = 1
        /\ ActionOf(i) # "FindOrCreateDocument"

=============================================================================
